---- MODULE Spec2Model ----
(***************************************************************************)
(* The scenario engine of db-load (src/scenarios.py), the level tracker    *)
(* its workers share, and the QueryRunner workload (src/load_test.py) with *)
(* the MetricsCollector (src/metrics.py), as a state machine.  One engine  *)
(* process (the scenario coroutine) and one per asyncio task; every        *)
(* action runs a coroutine from one suspension point (an await) to the     *)
(* next, which is the grain at which asyncio interleaves them.  Sleeps are *)
(* suspension points whose wake-up may come at any later moment; the       *)
(* delay a sleep was asked for is kept in the state (milliseconds).        *)
(***************************************************************************)
EXTENDS Integers, Sequences, FiniteSets, TLC

(* ---------------------------------------------------------------- bounds *)
\* Workload outcomes a level's tracker may accumulate in the small runs.
CapSmall == 3
\* The same, in the runs that must be able to pass stress's sample threshold.
CapStress == 102
\* The same, for stress_gentle's sample threshold.
CapGentle == 51
\* Queries a QueryRunner run records: one full invocation and the next's first.
MaxQueries == 31
\* Connections opened, and connect failures recorded, in a QueryRunner run.
MaxConnects == 2
\* Workload outcomes a level's tracker may accumulate in a QueryRunner run.
CapQR == 2
\* Queries the database fails in a QueryRunner run.
MaxQueryErrors == 2
\* The tracker values the pacing runs start from.
PaceMaxSuccess == 100
PaceMaxErrors == 50
\* The window runs: the window's length, the clock's last value (timestamps
\* are drawn from 0 .. MaxTime), and the timestamps a window may hold.
WindowSeconds == 2
MaxTime == 5
MaxStamps == 3
\* The thread runs: the threads that call the MetricsCollector, and the
\* record_query and record_connect calls they make between them.
NumThreads == 2
MaxRecords == 3
MaxConnectCalls == 1

(* ------------------------------------------------------ program constants *)
SpikeMaxErrors == 5
StressMaxErrors == 3
GentleMaxErrors == 3
ConnectionsPerBatch == 50
ConnectionsPerSecond == 10
StressSampleEvery == 10
GentleSampleEvery == 10
StressThrottleTotal == 100
StressAbortTotal == 100
GentleAbortTotal == 50
QueriesPerCall == 30
BreatherEvery == 5
max_retries == 3

VARIABLES
  cfg,        \* the call: scenario, its arguments, the workload's behaviour
  pc,         \* the scenario coroutine's position
  current,    \* `current` (ramp_up, stress, stress_gentle)
  batch,      \* `batch` (stress) / `step_num` (stress_gentle)
  elapsed,    \* `elapsed` of the hold loop
  cycle,      \* `cycle` (spike)
  tasks,      \* `tasks` / `base_tasks`: the handles the scenario holds
  spikeTasks, \* `spike_tasks` (spike)
  workers,    \* every task created and not yet forgotten: handle -> state
  live,       \* the tasks the event loop still holds: created and not finished
  trackers,   \* the error_tracker dicts, by the level that created them
  trk,        \* which dict the scenario's `error_tracker` names (0: line 145's)
  stopEvent,  \* `stop_event` (sustained)
  outcome,    \* what the call delivered: "running", "None", "raised", "cancelled"
  aborted,    \* the error-rate return was taken
  spawnLog,   \* ramp_up: <<index, delay>> of every spawn, in order
  qr,         \* the QueryRunner invocations in progress, by task
  metrics,    \* the MetricsCollector and the request counters
  open_conns, \* the connections open at the database
  tw,         \* a TimeWindow, the clock, and what its last call returned
  thr         \* the threads calling the MetricsCollector, and its lock

vars == <<cfg, pc, current, batch, elapsed, cycle, tasks, spikeTasks, workers, live,
          trackers, trk, stopEvent, outcome, aborted, spawnLog, qr, metrics,
          open_conns, tw, thr>>

(* ---------------------------------------------------------------- the call *)
Cfg(scen, start, step, max, dur, cycles, workload, cap) ==
  [scen |-> scen, start |-> start, step |-> step, max |-> max, dur |-> dur,
   cycles |-> cycles, workload |-> workload, cap |-> cap]

\* The arguments under the names the source gives them.
start_connections == cfg.start
max_connections == cfg.max
end_connections == cfg.max
step_duration_sec == cfg.dur
duration_sec == cfg.dur
connections == cfg.start
base_connections == cfg.start
spike_connections == cfg.step
spike_duration_sec == cfg.dur
cycles == cfg.cycles

Min(a, b) == IF a <= b THEN a ELSE b
Max(a, b) == IF a >= b THEN a ELSE b

(* ------------------------------------------------------------------ tasks *)
\* A handle is <<gen, idx>>: idx is the index passed on, gen the level that
\* created the task (0 outside stress and stress_gentle).  A task's state:
\*   st      where its coroutine is suspended, or how it ended
\*   ec      error_count, the consecutive failures
\*   cancel  cancel() was called on it and CancelledError is yet to be thrown
\*   delay   the sleep it is in, in ms (0: none)
\*   trk     the error_tracker dict it was created with
\*   calls   workload invocations started (kept for the one-shot tasks only)
Finished == {"done", "cancelled", "failed"}
Sleeping == {"backoff", "pace"}

NewWorker(t) == [st |-> "new", ec |-> 0, cancel |-> FALSE, delay |-> 0, trk |-> t,
                 calls |-> 0]

\* asyncio.create_task for every handle of hs, each given the dict t.
CreateTasks(ws, hs, t) ==
  [h \in (DOMAIN ws) \cup hs |-> IF h \in hs THEN NewWorker(t) ELSE ws[h]]

\* for t in tasks: t.cancel()  -- a task that is done ignores it.
CancelTasks(ws, hs) ==
  [h \in DOMAIN ws |->
     IF h \in hs /\ ws[h].st \notin Finished
       THEN [ws[h] EXCEPT !.cancel = TRUE] ELSE ws[h]]

\* A list of tasks is dropped: a finished task that no list in refs holds
\* any more is garbage.
Forget(ws, refs) ==
  LET keep == {h \in DOMAIN ws : ws[h].st \notin Finished \/ h \in refs}
  IN  [h \in keep |-> ws[h]]

\* gather(*hs, return_exceptions=True) has a result.
AllDone(hs) == hs \cap live = {}

\* A task ends: its coroutine's locals are gone, the way it ended stays.
End(w, how) == [w EXCEPT !.st = how, !.ec = 0, !.cancel = FALSE, !.delay = 0]

(* --------------------------------------------------------------- tracker *)
ZeroTracker == [success |-> 0, errors |-> 0]
Total(t) == t.success + t.errors
\* errors / total > num / den, for total > 0.
RateAbove(t, num, den) == t.errors * den > num * Total(t)

Looping == {"spike", "stress", "stress_gentle"}
Tracked == {"stress", "stress_gentle"}

\* (mutant of max_errors: every worker has spike's ceiling)
max_errors_AsSpike == SpikeMaxErrors
max_errors ==
  CASE cfg.scen = "spike" -> SpikeMaxErrors
    [] cfg.scen = "stress" -> StressMaxErrors
    [] cfg.scen = "stress_gentle" -> GentleMaxErrors
    [] OTHER -> 1

\* The pause after a workload failure, in ms.
BackoffDelay ==
  CASE cfg.scen = "spike" -> 500
    [] cfg.scen = "stress" -> 1000
    [] cfg.scen = "stress_gentle" -> 2000
    [] OTHER -> 0

\* (mutant of StressPace: the table is used below the sample threshold too)
StressPace_NoThreshold(t) ==
  IF RateAbove(t, 3, 10) THEN 500
  ELSE IF RateAbove(t, 1, 10) THEN 200
  ELSE 100

\* stress_worker's throttle: the pause after a success, from the tracker.
StressPace(t) ==
  IF Total(t) > StressThrottleTotal
    THEN IF RateAbove(t, 3, 10) THEN 500
         ELSE IF RateAbove(t, 1, 10) THEN 200
         ELSE 100
    ELSE 100

\* The pause after a success, in ms.
PaceDelay(t) ==
  CASE cfg.scen = "spike" -> 100
    [] cfg.scen = "stress" -> StressPace(t)
    [] cfg.scen = "stress_gentle" -> 200
    [] OTHER -> 0

\* The bound on a level's outcomes (only tracked scenarios count them; cap 0:
\* none is needed, the circuit breaker bounds an always-failing workload's).
UnderCap(h) ==
  cfg.scen \in Tracked /\ cfg.cap > 0 => Total(trackers[workers[h].trk]) < cfg.cap

(* -------------------------------------------------------------- TimeWindow *)
\* TimeWindow(window_seconds): no timestamps.  `now` is time.time(); `op` is
\* the last call ("idle" once the clock has moved on) and `result` what
\* rate() returned, count / window_seconds kept as <<count, window_seconds>>.
NewWindow == [timestamps |-> <<>>, now |-> 0, op |-> "idle", result |-> <<0, 1>>]

\* _trim: pop the first timestamp while it is older than now - window_seconds.
RECURSIVE _trim(_, _)
_trim(ts, now) ==
  IF ts # <<>> /\ Head(ts) < now - WindowSeconds THEN _trim(Tail(ts), now) ELSE ts

\* len([t for t in self.timestamps if t >= cutoff])
RECURSIVE CountFrom(_, _)
CountFrom(ts, cutoff) ==
  IF ts = <<>> THEN 0
  ELSE (IF Head(ts) >= cutoff THEN 1 ELSE 0) + CountFrom(Tail(ts), cutoff)

\* (mutant of rate: every timestamp left by the trim is counted)
rate_CountAll(ts, now) ==
  IF _trim(ts, now) = <<>> THEN <<0, 1>> ELSE <<Len(_trim(ts, now)), WindowSeconds>>

\* rate(): trim; 0.0 when nothing is left, else count / window_seconds.
rate(ts, now) ==
  IF _trim(ts, now) = <<>> THEN <<0, 1>>
  ELSE <<CountFrom(_trim(ts, now), now - WindowSeconds), WindowSeconds>>

\* TimeWindow.add(ts)
WindowAdd(ts) ==
  /\ Len(tw.timestamps) < MaxStamps
  /\ tw' = [tw EXCEPT !.timestamps = _trim(Append(@, ts), tw.now), !.op = "add"]
  /\ UNCHANGED <<workers, live, trackers, qr, metrics, open_conns, cfg, pc, current,
                 batch, elapsed, cycle, tasks, spikeTasks, trk, stopEvent, outcome,
                 aborted, spawnLog, thr>>

\* TimeWindow.rate()
WindowRate ==
  /\ tw' = [tw EXCEPT !.timestamps = _trim(@, tw.now), !.op = "rate",
                      !.result = rate(tw.timestamps, tw.now)]
  /\ UNCHANGED <<workers, live, trackers, qr, metrics, open_conns, cfg, pc, current,
                 batch, elapsed, cycle, tasks, spikeTasks, trk, stopEvent, outcome,
                 aborted, spawnLog, thr>>

\* Time passes.
WindowTick ==
  /\ tw.now < MaxTime
  /\ tw' = [tw EXCEPT !.now = @ + 1, !.op = "idle"]
  /\ UNCHANGED <<workers, live, trackers, qr, metrics, open_conns, cfg, pc, current,
                 batch, elapsed, cycle, tasks, spikeTasks, trk, stopEvent, outcome,
                 aborted, spawnLog, thr>>

(* ---------------------------------------------------------------- metrics *)
\* The MetricsCollector's counts, the number of timestamps its QPS window was
\* given, and the requests counter's two connect series.
ZeroMetrics == [success_count |-> 0, error_count |-> 0, qps_window |-> 0,
                connect_success |-> 0, connect_error |-> 0]

record_connect(m, ok) ==
  IF ok THEN [m EXCEPT !.connect_success = @ + 1]
        ELSE [m EXCEPT !.connect_error = @ + 1]

record_query(m, ok) ==
  [m EXCEPT !.qps_window = @ + 1,
            !.success_count = IF ok THEN @ + 1 ELSE @,
            !.error_count = IF ok THEN @ ELSE @ + 1]

(* ---------------------------------------------------------------- threads *)
\* The threads that call one MetricsCollector.  `lock` is the holder of
\* self._lock (0: free); a thread is idle, has called an operation and waits
\* for the lock ("..._lock"), or is inside the with block.  `done` counts the
\* record_query calls that have left the with block, `snap` is the dict the
\* last snapshot() returned, with `n`, the value of `done` when that call
\* took the lock.
Threads == 1..NumThreads
NoSnapshot == [success |-> 0, error |-> 0, qps |-> 0, n |-> 0]
NoThreads ==
  [lock |-> 0, at |-> [t \in Threads |-> "idle"], ok |-> [t \in Threads |-> TRUE],
   tmp |-> [t \in Threads |-> NoSnapshot], done |-> 0, returned |-> FALSE,
   snap |-> NoSnapshot]

\* What no MetricsCollector call touches.
scenario == <<cfg, pc, current, batch, elapsed, cycle, tasks, spikeTasks, workers, live,
              trackers, trk, stopEvent, outcome, aborted, spawnLog, qr, open_conns, tw>>

\* A thread calls record_connect, record_query or snapshot: it reaches the
\* with statement.
ThreadCall(t, op, ok) ==
  /\ thr.at[t] = "idle"
  /\ op = "record_query" =>
       metrics.qps_window + Cardinality({u \in Threads : thr.at[u] = "rq_lock"}) < MaxRecords
  /\ op = "record_connect" =>
       metrics.connect_success + metrics.connect_error
         + Cardinality({u \in Threads : thr.at[u] = "rc_lock"}) < MaxConnectCalls
  /\ thr' = [thr EXCEPT !.at[t] = CASE op = "record_connect" -> "rc_lock"
                                    [] op = "record_query" -> "rq_lock"
                                    [] OTHER -> "sn_lock",
                        !.ok[t] = ok]
  /\ UNCHANGED <<metrics, scenario>>

\* (mutant of Acquire: the with block is entered whoever holds the lock)
Acquire_NoLock(t) ==
  /\ thr.at[t] \in {"rc_lock", "rq_lock", "sn_lock"}
  /\ thr' = [thr EXCEPT !.lock = t,
                        !.at[t] = CASE thr.at[t] = "rc_lock" -> "rc_inc"
                                    [] thr.at[t] = "rq_lock" -> "rq_add"
                                    [] OTHER -> "sn_success",
                        !.tmp[t] = [NoSnapshot EXCEPT !.n = thr.done]]
  /\ UNCHANGED <<metrics, scenario>>

\* with self._lock: the lock is free and the thread takes it.
Acquire(t) ==
  /\ thr.at[t] \in {"rc_lock", "rq_lock", "sn_lock"}
  /\ thr.lock = 0
  /\ thr' = [thr EXCEPT !.lock = t,
                        !.at[t] = CASE thr.at[t] = "rc_lock" -> "rc_inc"
                                    [] thr.at[t] = "rq_lock" -> "rq_add"
                                    [] OTHER -> "sn_success",
                        !.tmp[t] = [NoSnapshot EXCEPT !.n = thr.done]]
  /\ UNCHANGED <<metrics, scenario>>

\* record_connect: the requests counter's series is incremented.
ConnectInc(t) ==
  /\ thr.at[t] = "rc_inc"
  /\ metrics' = record_connect(metrics, thr.ok[t])
  /\ thr' = [thr EXCEPT !.at[t] = "unlock"]
  /\ UNCHANGED scenario

\* record_query: self.qps_window.add(time.time())
QueryAdd(t) ==
  /\ thr.at[t] = "rq_add"
  /\ metrics' = [metrics EXCEPT !.qps_window = @ + 1]
  /\ thr' = [thr EXCEPT !.at[t] = "rq_read"]
  /\ UNCHANGED scenario

\* record_query: `self.success_count += 1` or `self.error_count += 1` reads
\* the attribute ...
QueryRead(t) ==
  /\ thr.at[t] = "rq_read"
  /\ thr' = [thr EXCEPT !.at[t] = "rq_write",
                        !.tmp[t].success = metrics.success_count,
                        !.tmp[t].error = metrics.error_count]
  /\ UNCHANGED <<metrics, scenario>>

\* ... and stores the sum.
QueryWrite(t) ==
  /\ thr.at[t] = "rq_write"
  /\ metrics' = IF thr.ok[t]
                  THEN [metrics EXCEPT !.success_count = thr.tmp[t].success + 1]
                  ELSE [metrics EXCEPT !.error_count = thr.tmp[t].error + 1]
  /\ thr' = [thr EXCEPT !.at[t] = "rq_unlock", !.tmp[t] = NoSnapshot]
  /\ UNCHANGED scenario

\* snapshot: the dict's three values are read one after the other.
SnapshotRead(t) ==
  /\ thr.at[t] \in {"sn_success", "sn_error", "sn_qps"}
  /\ thr' = CASE thr.at[t] = "sn_success" ->
                   [thr EXCEPT !.at[t] = "sn_error",
                               !.tmp[t].success = metrics.success_count]
              [] thr.at[t] = "sn_error" ->
                   [thr EXCEPT !.at[t] = "sn_qps", !.tmp[t].error = metrics.error_count]
              [] OTHER ->
                   [thr EXCEPT !.at[t] = "sn_unlock", !.tmp[t].qps = metrics.qps_window]
  /\ UNCHANGED <<metrics, scenario>>

\* The with block is left: the lock is released and the call returns.
Release(t) ==
  /\ thr.at[t] \in {"unlock", "rq_unlock", "sn_unlock"}
  /\ thr' = [thr EXCEPT !.lock = 0, !.at[t] = "idle", !.tmp[t] = NoSnapshot,
                        !.done = IF thr.at[t] = "rq_unlock" THEN @ + 1 ELSE @,
                        !.returned = @ \/ thr.at[t] = "sn_unlock",
                        !.snap = IF thr.at[t] = "sn_unlock" THEN thr.tmp[t] ELSE @]
  /\ UNCHANGED <<metrics, scenario>>

(* ---------------------------------------------------------------- workers *)
\* The QueryRunner invocation of a task: the await it is suspended in, the
\* attempt of the connect loop, the query index, and whether `conn` is set.
QRStart == [at |-> "connect", attempt |-> 0, i |-> 0, conn |-> FALSE]
InQR(h) == h \in DOMAIN qr
\* The workloads that are the QueryRunner: over a database whose every call
\* may succeed or fail ("qr"), or whose every query fails ("qr_down").
QRWorkloads == {"qr", "qr_down"}
\* worker(idx) is called / is left.
Enter(h) == IF cfg.workload \in QRWorkloads THEN (h :> QRStart) @@ qr ELSE qr
Leave(h) == [g \in DOMAIN qr \ {h} |-> qr[g]]

\* A created task runs for the first time: up to `await worker(idx)`.
WorkerStart(h) ==
  /\ workers[h].st = "new"
  /\ ~workers[h].cancel
  /\ workers' = [workers EXCEPT ![h].st = "work",
                                ![h].calls = IF cfg.scen \in Looping THEN 0 ELSE @ + 1]
  /\ qr' = Enter(h)
  /\ UNCHANGED <<cfg, pc, current, batch, elapsed, cycle, tasks, spikeTasks, live,
                 trackers, trk, stopEvent, outcome, aborted, spawnLog,
                 metrics, open_conns, tw, thr>>

\* (mutant of AfterReturn: the looping workers keep error_count on success)
AfterReturn_NoReset(h) ==
  LET t == IF cfg.scen \in Tracked
             THEN [trackers[workers[h].trk] EXCEPT !.success = @ + 1]
             ELSE ZeroTracker
  IN  /\ trackers' = IF cfg.scen \in Tracked
                       THEN [trackers EXCEPT ![workers[h].trk] = t] ELSE trackers
      /\ workers' =
           CASE cfg.scen = "ramp_up" -> [workers EXCEPT ![h] = End(@, "done")]
             [] cfg.scen = "sustained" ->
                  IF stopEvent THEN [workers EXCEPT ![h] = End(@, "done")]
                               ELSE [workers EXCEPT ![h].st = "parked"]
             [] OTHER ->
                  [workers EXCEPT ![h].st = "pace", ![h].delay = PaceDelay(t)]
      /\ live' = IF cfg.scen = "ramp_up" \/ (cfg.scen = "sustained" /\ stopEvent)
                   THEN live \ {h} ELSE live

\* The worker's code from the return of `await worker(idx)` to its next await.
AfterReturn(h) ==
  LET t == IF cfg.scen \in Tracked
             THEN [trackers[workers[h].trk] EXCEPT !.success = @ + 1]
             ELSE ZeroTracker
  IN  /\ trackers' = IF cfg.scen \in Tracked
                       THEN [trackers EXCEPT ![workers[h].trk] = t] ELSE trackers
      /\ workers' =
           CASE cfg.scen = "ramp_up" -> [workers EXCEPT ![h] = End(@, "done")]
             [] cfg.scen = "sustained" ->
                  IF stopEvent THEN [workers EXCEPT ![h] = End(@, "done")]
                               ELSE [workers EXCEPT ![h].st = "parked"]
             [] OTHER ->
                  [workers EXCEPT ![h].st = "pace", ![h].ec = 0,
                                  ![h].delay = PaceDelay(t)]
      /\ live' = IF cfg.scen = "ramp_up" \/ (cfg.scen = "sustained" /\ stopEvent)
                   THEN live \ {h} ELSE live

\* (mutant of AfterRaise: the tracker is given the worker's own count)
AfterRaise_OwnCount(h) ==
  /\ trackers' = IF cfg.scen \in Tracked
                   THEN [trackers EXCEPT ![workers[h].trk].errors = workers[h].ec + 1]
                   ELSE trackers
  /\ workers' =
       IF cfg.scen \in Looping
         THEN [workers EXCEPT ![h].st = "backoff", ![h].ec = @ + 1,
                              ![h].delay = BackoffDelay]
         ELSE [workers EXCEPT ![h] = End(@, "failed")]
  /\ live' = IF cfg.scen \in Looping THEN live ELSE live \ {h}

\* The worker's code from an exception out of `await worker(idx)` to its next
\* await (the one-shot workers let it end the task).
AfterRaise(h) ==
  /\ trackers' = IF cfg.scen \in Tracked
                   THEN [trackers EXCEPT ![workers[h].trk].errors = @ + 1] ELSE trackers
  /\ workers' =
       IF cfg.scen \in Looping
         THEN [workers EXCEPT ![h].st = "backoff", ![h].ec = @ + 1,
                              ![h].delay = BackoffDelay]
         ELSE [workers EXCEPT ![h] = End(@, "failed")]
  /\ live' = IF cfg.scen \in Looping THEN live ELSE live \ {h}

\* worker(idx) returns.
WorkloadReturn(h) ==
  /\ workers[h].st = "work"
  /\ ~workers[h].cancel
  /\ cfg.workload \in {"ok", "any"}
  /\ UnderCap(h)
  /\ AfterReturn(h)
  /\ UNCHANGED <<cfg, pc, current, batch, elapsed, cycle, tasks, spikeTasks,
                 trk, stopEvent, outcome, aborted, spawnLog,
                 qr, metrics, open_conns, tw, thr>>

\* worker(idx) raises an exception.
WorkloadRaise(h) ==
  /\ workers[h].st = "work"
  /\ ~workers[h].cancel
  /\ cfg.workload \in {"fail", "any"}
  /\ UnderCap(h)
  /\ AfterRaise(h)
  /\ UNCHANGED <<cfg, pc, current, batch, elapsed, cycle, tasks, spikeTasks,
                 trk, stopEvent, outcome, aborted, spawnLog,
                 qr, metrics, open_conns, tw, thr>>

\* A pacing or back-off sleep ends: the loop test, then the next invocation.
SleepWake(h) ==
  /\ workers[h].st \in Sleeping
  /\ ~workers[h].cancel
  /\ IF workers[h].ec < max_errors
       THEN /\ workers' = [workers EXCEPT ![h].st = "work", ![h].delay = 0]
            /\ qr' = Enter(h)
            /\ UNCHANGED live
       ELSE /\ workers' = [workers EXCEPT ![h] = End(@, "done")]
            /\ live' = live \ {h}
            /\ UNCHANGED qr
  /\ UNCHANGED <<cfg, pc, current, batch, elapsed, cycle, tasks, spikeTasks,
                 trackers, trk, stopEvent, outcome, aborted, spawnLog,
                 metrics, open_conns, tw, thr>>

\* (mutant of ParkedWake: the wait does not wait for the event)
ParkedWake_NoStop(h) ==
  /\ workers[h].st = "parked"
  /\ workers' = [workers EXCEPT ![h] = End(@, "done")]
  /\ live' = live \ {h}
  /\ UNCHANGED <<cfg, pc, current, batch, elapsed, cycle, tasks, spikeTasks,
                 trackers, trk, stopEvent, outcome, aborted, spawnLog,
                 qr, metrics, open_conns, tw, thr>>

\* sustained's run_worker, parked on stop_event.wait(), is released.
ParkedWake(h) ==
  /\ workers[h].st = "parked"
  /\ stopEvent
  /\ workers' = [workers EXCEPT ![h] = End(@, "done")]
  /\ live' = live \ {h}
  /\ UNCHANGED <<cfg, pc, current, batch, elapsed, cycle, tasks, spikeTasks,
                 trackers, trk, stopEvent, outcome, aborted, spawnLog,
                 qr, metrics, open_conns, tw, thr>>

\* (mutant of DeliverCancel: the cancellation is counted as a failure)
DeliverCancel_Counted(h) ==
  /\ workers[h].cancel
  /\ workers[h].st \notin Finished
  /\ ~InQR(h)
  /\ workers' = [workers EXCEPT ![h] = End(@, "cancelled")]
  /\ live' = live \ {h}
  /\ trackers' = IF cfg.scen \in Tracked /\ workers[h].st \in Sleeping
                   THEN [trackers EXCEPT ![workers[h].trk].errors = @ + 1] ELSE trackers
  /\ UNCHANGED <<cfg, pc, current, batch, elapsed, cycle, tasks, spikeTasks,
                 trk, stopEvent, outcome, aborted, spawnLog,
                 qr, metrics, open_conns, tw, thr>>

\* CancelledError is thrown into a task at the await it is suspended in
\* (or before its first step), outside the QueryRunner; the worker re-raises it.
DeliverCancel(h) ==
  /\ workers[h].cancel
  /\ workers[h].st \notin Finished
  /\ ~InQR(h)
  /\ workers' = [workers EXCEPT ![h] = End(@, "cancelled")]
  /\ live' = live \ {h}
  /\ UNCHANGED <<cfg, pc, current, batch, elapsed, cycle, tasks, spikeTasks,
                 trackers, trk, stopEvent, outcome, aborted, spawnLog,
                 qr, metrics, open_conns, tw, thr>>

(* ------------------------------------------------------------ QueryRunner *)
\* What the scenario and the other tasks own.
others == <<cfg, pc, current, batch, elapsed, cycle, tasks, spikeTasks, trk,
            stopEvent, outcome, aborted, spawnLog, tw, thr>>

\* A task suspended inside QueryRunner.__call__ with no cancellation pending.
QRAt(h, where) ==
  /\ InQR(h)
  /\ workers[h].st = "work"
  /\ ~workers[h].cancel
  /\ qr[h].at \in where

\* 0.5 * (2 ** attempt), in ms.
RetryDelay(attempt) == 500 * 2 ^ attempt

\* The query after query i, or the close of the finally block after the last.
NextQuery(q) ==
  IF q.i + 1 < QueriesPerCall THEN [q EXCEPT !.at = "query", !.i = @ + 1]
                              ELSE [q EXCEPT !.at = "close"]

\* asyncpg.connect returns a connection: record_connect(ok=True), then SET.
QRConnectOk(h) ==
  /\ QRAt(h, {"connect"})
  /\ metrics.connect_success < MaxConnects
  /\ qr' = [qr EXCEPT ![h].at = "set_timeout", ![h].conn = TRUE]
  /\ open_conns' = open_conns + 1
  /\ metrics' = record_connect(metrics, TRUE)
  /\ UNCHANGED <<workers, live, trackers, others>>

\* (mutant of AttemptFailed: after the last attempt the error is raised again)
AttemptFailed_Raises(h) ==
  IF qr[h].attempt < max_retries - 1
    THEN /\ qr' = [qr EXCEPT ![h].at = "retry_sleep"]
         /\ workers' = [workers EXCEPT ![h].delay = RetryDelay(qr[h].attempt)]
         /\ UNCHANGED <<metrics, open_conns, live, trackers>>
    ELSE /\ metrics.connect_error < MaxConnects
         /\ metrics' = record_connect(metrics, FALSE)
         /\ UNCHANGED open_conns
         /\ UnderCap(h)
         /\ qr' = Leave(h)
         /\ AfterRaise(h)

\* The except clause of the connect loop: back off, or after the last attempt
\* record the failure, close `conn` if it is set, and return.
AttemptFailed(h) ==
  IF qr[h].attempt < max_retries - 1
    THEN /\ qr' = [qr EXCEPT ![h].at = "retry_sleep"]
         /\ workers' = [workers EXCEPT ![h].delay = RetryDelay(qr[h].attempt)]
         /\ UNCHANGED <<metrics, open_conns, live, trackers>>
    ELSE /\ metrics.connect_error < MaxConnects
         /\ metrics' = record_connect(metrics, FALSE)
         /\ UNCHANGED open_conns
         /\ IF qr[h].conn
              THEN /\ qr' = [qr EXCEPT ![h].at = "close_failed"]
                   /\ UNCHANGED <<workers, live, trackers>>
              ELSE /\ UnderCap(h)
                   /\ qr' = Leave(h)
                   /\ AfterReturn(h)

\* asyncpg.connect raises ConnectionError, PostgresError or OSError.
QRConnectFail(h) ==
  /\ QRAt(h, {"connect"})
  /\ AttemptFailed(h)
  /\ UNCHANGED others

\* conn.execute("SET statement_timeout ...") returns: break.
QRSetOk(h) ==
  /\ QRAt(h, {"set_timeout"})
  /\ qr' = [qr EXCEPT ![h].at = "query", ![h].i = 0]
  /\ UNCHANGED <<workers, live, trackers, metrics, open_conns, others>>

\* conn.execute raises one of the three: the connection stays open.
QRSetFail(h) ==
  /\ QRAt(h, {"set_timeout"})
  /\ AttemptFailed(h)
  /\ UNCHANGED others

\* connect or SET raises an exception the except clause does not name: it
\* leaves __call__.
QRRaise(h) ==
  /\ QRAt(h, {"connect", "set_timeout"})
  /\ UnderCap(h)
  /\ qr' = Leave(h)
  /\ AfterRaise(h)
  /\ UNCHANGED <<metrics, open_conns, others>>

\* The back-off sleep of the connect loop ends: continue.
QRRetryWake(h) ==
  /\ QRAt(h, {"retry_sleep"})
  /\ qr' = [qr EXCEPT ![h].at = "connect", ![h].attempt = @ + 1]
  /\ workers' = [workers EXCEPT ![h].delay = 0]
  /\ UNCHANGED <<live, trackers, metrics, open_conns, others>>

\* conn.close() after the last failed attempt is over: return.
QRCloseFailed(h) ==
  /\ QRAt(h, {"close_failed"})
  /\ UnderCap(h)
  /\ open_conns' = open_conns - 1
  /\ qr' = Leave(h)
  /\ AfterReturn(h)
  /\ UNCHANGED <<metrics, others>>

\* _execute_random_query: the query returns (ok) or raises an Exception (not
\* ok); either way record_query, then the breather after every fifth query.
QRQuery(h, ok) ==
  /\ QRAt(h, {"query"})
  /\ metrics.qps_window < MaxQueries
  /\ IF cfg.workload = "qr_down" THEN ~ok
       ELSE ok \/ metrics.error_count < MaxQueryErrors
  /\ metrics' = record_query(metrics, ok)
  /\ IF qr[h].i % BreatherEvery = 0
       THEN /\ qr' = [qr EXCEPT ![h].at = "breather"]
            /\ workers' = [workers EXCEPT ![h].delay = 50]
       ELSE /\ qr' = [qr EXCEPT ![h] = NextQuery(@)]
            /\ UNCHANGED workers
  /\ UNCHANGED <<live, trackers, open_conns, others>>

\* The 50ms breather ends.
QRBreatherWake(h) ==
  /\ QRAt(h, {"breather"})
  /\ qr' = [qr EXCEPT ![h] = NextQuery(@)]
  /\ workers' = [workers EXCEPT ![h].delay = 0]
  /\ UNCHANGED <<live, trackers, metrics, open_conns, others>>

\* finally: conn.close() is over: __call__ returns.
QRClose(h) ==
  /\ QRAt(h, {"close"})
  /\ UnderCap(h)
  /\ open_conns' = open_conns - 1
  /\ qr' = Leave(h)
  /\ AfterReturn(h)
  /\ UNCHANGED <<metrics, others>>

\* CancelledError is thrown into a task suspended inside __call__.  In a
\* query, _execute_random_query's finally block runs record_query with ok
\* still True; from a query or a breather the outer finally block awaits
\* conn.close() before the error goes on; elsewhere it leaves __call__ at
\* once, and the worker re-raises it.  A conn.close() that is cancelled
\* aborts the connection.
QRCancel(h) ==
  /\ InQR(h)
  /\ workers[h].st = "work"
  /\ workers[h].cancel
  /\ metrics' = IF qr[h].at = "query" THEN record_query(metrics, TRUE) ELSE metrics
  /\ IF qr[h].at \in {"query", "breather"}
       THEN /\ qr' = [qr EXCEPT ![h].at = "unwind"]
            /\ workers' = [workers EXCEPT ![h].cancel = FALSE, ![h].delay = 0]
            /\ UNCHANGED live
       ELSE /\ qr' = Leave(h)
            /\ workers' = [workers EXCEPT ![h] = End(@, "cancelled")]
            /\ live' = live \ {h}
  /\ open_conns' = IF qr[h].at \in {"close", "close_failed", "unwind"}
                     THEN open_conns - 1 ELSE open_conns
  /\ UNCHANGED <<trackers, others>>

\* The conn.close() of a cancelled invocation is over: CancelledError leaves
\* __call__ and the worker.
QRUnwound(h) ==
  /\ QRAt(h, {"unwind"})
  /\ open_conns' = open_conns - 1
  /\ qr' = Leave(h)
  /\ workers' = [workers EXCEPT ![h] = End(@, "cancelled")]
  /\ live' = live \ {h}
  /\ UNCHANGED <<trackers, metrics, others>>


(* ------------------------------------------- stress and stress_gentle *)
\* The levels a call visits unless it stops early.
LevelsOf(c) == {l \in c.start..c.max : (l - c.start) % c.step = 0}

\* The sample test of stress's hold loop, and its abort test.
StressSamples(e) == e % StressSampleEvery = 0 /\ e > 0
\* (mutant of StressAbort: the sample threshold is met at 100 outcomes already)
StressAbort_AtThreshold(t) ==
  Total(t) > 0 /\ RateAbove(t, 5, 10) /\ Total(t) >= StressAbortTotal
StressAbort(t) == Total(t) > 0 /\ RateAbove(t, 5, 10) /\ Total(t) > StressAbortTotal
\* stress_gentle samples after every sleep of its hold loop.
\* (mutant of GentleAbort: stress's sample threshold is used)
GentleAbort_StressTotal(t) ==
  Total(t) > 0 /\ RateAbove(t, 4, 10) /\ Total(t) > StressAbortTotal
GentleAbort(t) == Total(t) > 0 /\ RateAbove(t, 4, 10) /\ Total(t) > GentleAbortTotal

PerBatch == IF cfg.scen = "stress" THEN ConnectionsPerBatch ELSE ConnectionsPerSecond
\* (mutant of Batches: the division rounds down)
Batches_Floor == current \div PerBatch
\* `batches` / `ramp_steps`
Batches == (current + PerBatch - 1) \div PerBatch
BatchHandles(b) ==
  {<<current, i>> : i \in (b * PerBatch)..(Min((b + 1) * PerBatch, current) - 1)}

\* (mutant of LevelLoop: the loop stops before the level max_connections)
LevelLoop_Strict ==
  /\ pc = "loop"
  /\ IF current < max_connections
       THEN /\ workers' = CancelTasks(workers, tasks)
            /\ pc' = IF tasks # {} THEN "gather_old" ELSE "reset"
       ELSE /\ pc' = "finally"
            /\ UNCHANGED workers
  /\ UNCHANGED <<live, cfg, current, batch, elapsed, cycle, tasks, spikeTasks,
                 trackers, trk, stopEvent, outcome, aborted, spawnLog,
                 qr, metrics, open_conns, tw, thr>>

\* while current <= max_connections: cancel the old tasks and wait for them.
LevelLoop ==
  /\ pc = "loop"
  /\ IF current <= max_connections
       THEN /\ workers' = CancelTasks(workers, tasks)
            /\ pc' = IF tasks # {} THEN "gather_old" ELSE "reset"
       ELSE /\ pc' = "finally"
            /\ UNCHANGED workers
  /\ UNCHANGED <<live, cfg, current, batch, elapsed, cycle, tasks, spikeTasks,
                 trackers, trk, stopEvent, outcome, aborted, spawnLog,
                 qr, metrics, open_conns, tw, thr>>

\* (mutant of GatherOld: the old level's tasks are cancelled and not awaited)
GatherOld_NoWait ==
  /\ pc = "gather_old"
  /\ pc' = "reset"
  /\ UNCHANGED <<live, cfg, current, batch, elapsed, cycle, tasks, spikeTasks, workers,
                 trackers, trk, stopEvent, outcome, aborted, spawnLog,
                 qr, metrics, open_conns, tw, thr>>

\* await asyncio.gather(*tasks, return_exceptions=True) on the old level.
GatherOld ==
  /\ pc = "gather_old"
  /\ AllDone(tasks)
  /\ pc' = "reset"
  /\ UNCHANGED <<live, cfg, current, batch, elapsed, cycle, tasks, spikeTasks, workers,
                 trackers, trk, stopEvent, outcome, aborted, spawnLog,
                 qr, metrics, open_conns, tw, thr>>

\* (mutant of LevelReset: the level keeps the dict of the level before)
LevelReset_SameDict ==
  /\ pc = "reset"
  /\ tasks' = {}
  /\ workers' = Forget(workers, {})
  /\ batch' = 0
  /\ pc' = "spawn"
  /\ UNCHANGED <<live, cfg, current, elapsed, cycle, spikeTasks, stopEvent, outcome,
                 aborted, spawnLog, trk, trackers,
                 qr, metrics, open_conns, tw, thr>>

\* error_tracker = {...}; tasks = []  -- a dict no live task holds is garbage.
LevelReset ==
  /\ pc = "reset"
  /\ trk' = current
  /\ trackers' = [g \in DOMAIN trackers |->
                    IF g = current \/ ~(\E h \in live : workers[h].trk = g)
                      THEN ZeroTracker ELSE trackers[g]]
  /\ tasks' = {}
  /\ workers' = Forget(workers, {})
  /\ batch' = 0
  /\ pc' = "spawn"
  /\ UNCHANGED <<live, cfg, current, elapsed, cycle, spikeTasks, stopEvent, outcome,
                 aborted, spawnLog,
                 qr, metrics, open_conns, tw, thr>>

\* One batch of create_task calls, then the wait that follows it, or the hold.
\* stress waits between batches only; stress_gentle after every step.
SpawnBatch ==
  /\ pc = "spawn"
  /\ IF batch < Batches
       THEN /\ workers' = CreateTasks(workers, BatchHandles(batch), trk)
            /\ live' = live \cup BatchHandles(batch)
            /\ tasks' = tasks \cup BatchHandles(batch)
            /\ pc' = IF cfg.scen = "stress_gentle" \/ batch < Batches - 1
                       THEN "batch_sleep" ELSE "hold_enter"
       ELSE /\ pc' = "hold_enter"
            /\ UNCHANGED <<workers, live, tasks>>
  /\ UNCHANGED <<cfg, current, batch, elapsed, cycle, spikeTasks, trackers, trk,
                 stopEvent, outcome, aborted, spawnLog,
                 qr, metrics, open_conns, tw, thr>>

\* await asyncio.sleep(1.0) between batches ends.
BatchWake ==
  /\ pc = "batch_sleep"
  /\ batch' = batch + 1
  /\ pc' = IF batch + 1 < Batches THEN "spawn" ELSE "hold_enter"
  /\ UNCHANGED <<live, cfg, current, elapsed, cycle, tasks, spikeTasks, workers, trackers,
                 trk, stopEvent, outcome, aborted, spawnLog,
                 qr, metrics, open_conns, tw, thr>>

\* The hold loop starts: its first sleep, or no iteration at all.
HoldEnter ==
  /\ pc = "hold_enter"
  /\ elapsed' = 0
  /\ IF step_duration_sec > 0
       THEN pc' = "hold" /\ UNCHANGED current
       ELSE pc' = "loop" /\ current' = current + cfg.step
  /\ UNCHANGED <<live, cfg, batch, cycle, tasks, spikeTasks, workers, trackers, trk,
                 stopEvent, outcome, aborted, spawnLog,
                 qr, metrics, open_conns, tw, thr>>

\* stress: await asyncio.sleep(1) of the hold loop ends; the sample, the abort
\* test, then the next sleep or the next level.
StressHoldWake ==
  /\ pc = "hold"
  /\ cfg.scen = "stress"
  /\ IF StressSamples(elapsed) /\ StressAbort(trackers[trk])
       THEN /\ pc' = "finally"
            /\ aborted' = TRUE
            /\ UNCHANGED <<elapsed, current>>
       ELSE /\ UNCHANGED aborted
            /\ IF elapsed + 1 < step_duration_sec
                 THEN elapsed' = elapsed + 1 /\ pc' = "hold" /\ UNCHANGED current
                 ELSE elapsed' = elapsed /\ pc' = "loop" /\ current' = current + cfg.step
  /\ UNCHANGED <<live, cfg, batch, cycle, tasks, spikeTasks, workers, trackers, trk,
                 stopEvent, outcome, spawnLog,
                 qr, metrics, open_conns, tw, thr>>

\* stress_gentle: await asyncio.sleep(min(10, ...)) of the hold loop ends.
GentleHoldWake ==
  /\ pc = "hold"
  /\ cfg.scen = "stress_gentle"
  /\ IF GentleAbort(trackers[trk])
       THEN /\ pc' = "finally"
            /\ aborted' = TRUE
            /\ UNCHANGED <<elapsed, current>>
       ELSE /\ UNCHANGED aborted
            /\ IF elapsed + GentleSampleEvery < step_duration_sec
                 THEN elapsed' = elapsed + GentleSampleEvery /\ pc' = "hold"
                      /\ UNCHANGED current
                 ELSE elapsed' = elapsed /\ pc' = "loop" /\ current' = current + cfg.step
  /\ UNCHANGED <<live, cfg, batch, cycle, tasks, spikeTasks, workers, trackers, trk,
                 stopEvent, outcome, spawnLog,
                 qr, metrics, open_conns, tw, thr>>

\* (mutant of Finally: the tasks are cancelled and not awaited)
Finally_NoAwait ==
  /\ pc = "finally"
  /\ workers' = CancelTasks(workers, tasks)
  /\ pc' = "returned"
  /\ outcome' = "None"
  /\ UNCHANGED <<live, cfg, current, batch, elapsed, cycle, tasks, spikeTasks,
                 trackers, trk, stopEvent, aborted, spawnLog,
                 qr, metrics, open_conns, tw, thr>>

\* finally: cancel whatever tasks remain, and wait for them if there are any.
Finally ==
  /\ pc = "finally"
  /\ workers' = CancelTasks(workers, tasks)
  /\ IF tasks # {} \/ cfg.scen = "spike"
       THEN pc' = "gather_final" /\ UNCHANGED outcome
       ELSE pc' = "returned" /\ outcome' = "None"
  /\ UNCHANGED <<live, cfg, current, batch, elapsed, cycle, tasks, spikeTasks,
                 trackers, trk, stopEvent, aborted, spawnLog,
                 qr, metrics, open_conns, tw, thr>>

\* The finally block's gather has its result: the function returns None.
GatherFinal ==
  /\ pc = "gather_final"
  /\ AllDone(tasks)
  /\ pc' = "returned"
  /\ outcome' = "None"
  /\ UNCHANGED <<live, cfg, current, batch, elapsed, cycle, tasks, spikeTasks, workers,
                 trackers, trk, stopEvent, aborted, spawnLog,
                 qr, metrics, open_conns, tw, thr>>


(* ---------------------------------------------------------------- ramp_up *)
\* (mutant of steps: the number of instances, not of gaps between them)
steps_Instances == Max(1, end_connections - start_connections + 1)
\* steps = max(1, end_connections - start_connections)
steps == Max(1, end_connections - start_connections)
\* delay = duration_sec / steps, kept as the fraction <<numerator, denominator>>.
delay == <<duration_sec, steps>>

\* while current <= end_connections: create the task, sleep; else the gather.
RampLoop ==
  /\ pc = "ru_loop"
  /\ IF current <= end_connections
       THEN /\ workers' = CreateTasks(workers, {<<0, current>>}, 0)
            /\ live' = live \cup {<<0, current>>}
            /\ tasks' = tasks \cup {<<0, current>>}
            /\ spawnLog' = Append(spawnLog, <<current, delay>>)
            /\ pc' = "ru_sleep"
       ELSE /\ pc' = "ru_gather"
            /\ UNCHANGED <<workers, live, tasks, spawnLog>>
  /\ UNCHANGED <<cfg, current, batch, elapsed, cycle, spikeTasks, trackers, trk,
                 stopEvent, outcome, aborted,
                 qr, metrics, open_conns, tw, thr>>

\* await asyncio.sleep(delay) ends; current += 1.
RampWake ==
  /\ pc = "ru_sleep"
  /\ current' = current + 1
  /\ pc' = "ru_loop"
  /\ UNCHANGED <<live, cfg, batch, elapsed, cycle, tasks, spikeTasks, workers, trackers,
                 trk, stopEvent, outcome, aborted, spawnLog,
                 qr, metrics, open_conns, tw, thr>>

\* await asyncio.gather(*tasks): every task finished, none with an exception.
RampGatherDone ==
  /\ pc = "ru_gather"
  /\ \A h \in tasks : workers[h].st = "done"
  /\ pc' = "returned"
  /\ outcome' = "None"
  /\ UNCHANGED <<live, cfg, current, batch, elapsed, cycle, tasks, spikeTasks, workers,
                 trackers, trk, stopEvent, aborted, spawnLog,
                 qr, metrics, open_conns, tw, thr>>

\* await asyncio.gather(*tasks): a task ended with an exception, which gather
\* passes on at once, whatever the other tasks are doing.
RampGatherRaise ==
  /\ pc = "ru_gather"
  /\ \E h \in tasks : workers[h].st = "failed"
  /\ pc' = "raised"
  /\ outcome' = "raised"
  /\ UNCHANGED <<live, cfg, current, batch, elapsed, cycle, tasks, spikeTasks, workers,
                 trackers, trk, stopEvent, aborted, spawnLog,
                 qr, metrics, open_conns, tw, thr>>

(* -------------------------------------------------------------- sustained *)
\* tasks = [create_task(run_worker(i)) for i in range(connections)]; the sleep.
SustainedStart ==
  /\ pc = "su_start"
  /\ workers' = CreateTasks(workers, {<<0, i>> : i \in 0..(connections - 1)}, 0)
  /\ tasks' = {<<0, i>> : i \in 0..(connections - 1)}
  /\ live' = live \cup {<<0, i>> : i \in 0..(connections - 1)}
  /\ pc' = "su_sleep"
  /\ UNCHANGED <<cfg, current, batch, elapsed, cycle, spikeTasks, trackers, trk,
                 stopEvent, outcome, aborted, spawnLog,
                 qr, metrics, open_conns, tw, thr>>

\* await asyncio.sleep(duration_sec) ends; finally: stop_event.set(), the gather.
SustainedWake ==
  /\ pc = "su_sleep"
  /\ stopEvent' = TRUE
  /\ pc' = "gather_final"
  /\ UNCHANGED <<live, cfg, current, batch, elapsed, cycle, tasks, spikeTasks, workers,
                 trackers, trk, outcome, aborted, spawnLog,
                 qr, metrics, open_conns, tw, thr>>

(* ------------------------------------------------------------------ spike *)
SpikeHandles(c) ==
  {<<0, base_connections + c * spike_connections + i>> : i \in 0..(spike_connections - 1)}

\* base_tasks = [...]; the first cycle's stable sleep, or no cycle at all.
SpikeStart ==
  /\ pc = "sp_start"
  /\ workers' = CreateTasks(workers, {<<0, i>> : i \in 0..(base_connections - 1)}, 0)
  /\ tasks' = {<<0, i>> : i \in 0..(base_connections - 1)}
  /\ live' = live \cup {<<0, i>> : i \in 0..(base_connections - 1)}
  /\ cycle' = 0
  /\ pc' = IF cycles > 0 THEN "sp_stable" ELSE "finally"
  /\ UNCHANGED <<cfg, current, batch, elapsed, spikeTasks, trackers, trk,
                 stopEvent, outcome, aborted, spawnLog,
                 qr, metrics, open_conns, tw, thr>>

\* await asyncio.sleep(2) ends; spike_tasks = [...]; the spike window's sleep.
SpikeOpen ==
  /\ pc = "sp_stable"
  /\ workers' = CreateTasks(Forget(workers, tasks), SpikeHandles(cycle), 0)
  /\ spikeTasks' = SpikeHandles(cycle)
  /\ live' = live \cup SpikeHandles(cycle)
  /\ pc' = "sp_spike"
  /\ UNCHANGED <<cfg, current, batch, elapsed, cycle, tasks, trackers, trk,
                 stopEvent, outcome, aborted, spawnLog,
                 qr, metrics, open_conns, tw, thr>>

\* (mutant of SpikeClose: every task is cancelled, the base tasks too)
SpikeClose_All ==
  /\ pc = "sp_spike"
  /\ workers' = CancelTasks(workers, spikeTasks \cup tasks)
  /\ pc' = "sp_gather_spike"
  /\ UNCHANGED <<live, cfg, current, batch, elapsed, cycle, tasks, spikeTasks, trackers,
                 trk, stopEvent, outcome, aborted, spawnLog,
                 qr, metrics, open_conns, tw, thr>>

\* await asyncio.sleep(spike_duration_sec) ends; the spike tasks are cancelled.
SpikeClose ==
  /\ pc = "sp_spike"
  /\ workers' = CancelTasks(workers, spikeTasks)
  /\ pc' = "sp_gather_spike"
  /\ UNCHANGED <<live, cfg, current, batch, elapsed, cycle, tasks, spikeTasks, trackers,
                 trk, stopEvent, outcome, aborted, spawnLog,
                 qr, metrics, open_conns, tw, thr>>

\* (mutant of SpikeGather: the cancelled spike tasks are not awaited)
SpikeGather_NoWait ==
  /\ pc = "sp_gather_spike"
  /\ pc' = IF cycle < cycles - 1 THEN "sp_recovery" ELSE "finally"
  /\ UNCHANGED <<live, cfg, current, batch, elapsed, cycle, tasks, spikeTasks, workers,
                 trackers, trk, stopEvent, outcome, aborted, spawnLog,
                 qr, metrics, open_conns, tw, thr>>

\* await asyncio.gather(*spike_tasks, return_exceptions=True) has its result;
\* the recovery sleep, or, after the last cycle, the finally block.
SpikeGather ==
  /\ pc = "sp_gather_spike"
  /\ AllDone(spikeTasks)
  /\ pc' = IF cycle < cycles - 1 THEN "sp_recovery" ELSE "finally"
  /\ UNCHANGED <<live, cfg, current, batch, elapsed, cycle, tasks, spikeTasks, workers,
                 trackers, trk, stopEvent, outcome, aborted, spawnLog,
                 qr, metrics, open_conns, tw, thr>>

\* The recovery sleep ends: the next cycle's stable sleep.
SpikeRecovered ==
  /\ pc = "sp_recovery"
  /\ cycle' = cycle + 1
  /\ pc' = "sp_stable"
  /\ UNCHANGED <<live, cfg, current, batch, elapsed, tasks, spikeTasks, workers,
                 trackers, trk, stopEvent, outcome, aborted, spawnLog,
                 qr, metrics, open_conns, tw, thr>>

(* ------------------------------------------- cancellation from outside *)
\* The awaits of the scenario functions that are sleeps.
ScenarioSleeps ==
  {"ru_sleep", "su_sleep", "sp_stable", "sp_spike", "sp_recovery", "batch_sleep", "hold"}

\* The task running the scenario is cancelled while it sleeps: CancelledError
\* is thrown at the sleep.  ramp_up has no handler: the error leaves it at
\* once.  sustained's finally block sets the event and awaits its tasks; the
\* finally blocks of spike, stress and stress_gentle cancel `base_tasks` /
\* `tasks` and, if there are any (spike: always), await them.
ScenarioCancel ==
  /\ pc \in ScenarioSleeps
  /\ stopEvent' = (stopEvent \/ pc = "su_sleep")
  /\ workers' = IF pc \in {"ru_sleep", "su_sleep"} THEN workers
                ELSE CancelTasks(workers, tasks)
  /\ IF pc = "ru_sleep" \/ (cfg.scen \in Tracked /\ tasks = {})
       THEN pc' = "raised" /\ outcome' = "cancelled"
       ELSE pc' = "gather_cancelled" /\ UNCHANGED outcome
  /\ UNCHANGED <<live, cfg, current, batch, elapsed, cycle, tasks, spikeTasks,
                 trackers, trk, aborted, spawnLog,
                 qr, metrics, open_conns, tw, thr>>

\* The finally block's gather has its result: CancelledError goes on to the
\* caller.
GatherCancelled ==
  /\ pc = "gather_cancelled"
  /\ AllDone(tasks)
  /\ pc' = "raised"
  /\ outcome' = "cancelled"
  /\ UNCHANGED <<live, cfg, current, batch, elapsed, cycle, tasks, spikeTasks, workers,
                 trackers, trk, stopEvent, aborted, spawnLog,
                 qr, metrics, open_conns, tw, thr>>

(* ---------------------------------------------------------- specifications *)
Entry(scen) ==
  CASE scen = "ramp_up" -> "ru_loop"
    [] scen = "sustained" -> "su_start"
    [] scen = "spike" -> "sp_start"
    [] OTHER -> "loop"

\* The state on entry to the scenario function, for a call drawn from C.
InitOf(C) ==
  /\ cfg \in C
  /\ pc = Entry(cfg.scen)
  /\ current = IF cfg.scen \in {"ramp_up", "stress", "stress_gentle"} THEN cfg.start ELSE 0
  /\ batch = 0
  /\ elapsed = 0
  /\ cycle = 0
  /\ tasks = {}
  /\ spikeTasks = {}
  /\ workers = [h \in {} |-> NewWorker(0)]
  /\ live = {}
  /\ trackers = [g \in {0} \cup (IF cfg.scen \in Tracked THEN LevelsOf(cfg) ELSE {}) |->
                   ZeroTracker]
  /\ trk = 0
  /\ stopEvent = FALSE
  /\ outcome = "running"
  /\ aborted = FALSE
  /\ spawnLog = <<>>
  /\ qr = [h \in {} |-> QRStart]
  /\ metrics = ZeroMetrics
  /\ open_conns = 0
  /\ tw = NewWindow
  /\ thr = NoThreads

Engine ==
  \/ LevelLoop \/ GatherOld \/ LevelReset \/ SpawnBatch \/ BatchWake \/ HoldEnter
  \/ StressHoldWake \/ GentleHoldWake \/ Finally \/ GatherFinal
  \/ RampLoop \/ RampWake \/ RampGatherDone \/ RampGatherRaise
  \/ SustainedStart \/ SustainedWake
  \/ SpikeStart \/ SpikeOpen \/ SpikeClose \/ SpikeGather \/ SpikeRecovered

\* The calls of the main specification: every scenario, small pools, a
\* workload whose every invocation may return or raise.
Calls ==
  { Cfg("ramp_up", 1, 0, 5, 4, 0, "any", 0),
    Cfg("ramp_up", 2, 0, 2, 3, 0, "any", 0),
    Cfg("ramp_up", 3, 0, 2, 1, 0, "any", 0),
    Cfg("sustained", 2, 0, 0, 5, 0, "any", 0),
    Cfg("spike", 1, 1, 0, 3, 2, "any", 0),
    Cfg("spike", 2, 3, 0, 1, 2, "ok", 0),
    Cfg("stress", 1, 1, 2, 2, 0, "any", CapSmall),
    Cfg("stress", 1, 1, 1, 21, 0, "any", CapStress),
    Cfg("stress_gentle", 1, 1, 2, 20, 0, "any", CapSmall),
    Cfg("stress_gentle", 1, 1, 1, 10, 0, "any", CapGentle) }

Init == InitOf(Calls)
Next ==
  \/ Engine
  \/ \E h \in live : WorkerStart(h)
  \/ \E h \in live : WorkloadReturn(h)
  \/ \E h \in live : WorkloadRaise(h)
  \/ \E h \in live : SleepWake(h)
  \/ \E h \in live : ParkedWake(h)
  \/ \E h \in live : DeliverCancel(h)
Spec == Init /\ [][Next]_vars


(* The runs of the two stress tests: a workload that fails on every        *)
(* invocation, pools of 50 to 300 tasks.  The tasks of a level are          *)
(* identical, so these specifications run them one at a time in creation    *)
(* order: the scenario's steps still interleave freely with theirs, and      *)
(* every count of errors from 0 to three per task can meet every step of    *)
(* the scenario.  The task to run is the first of `tasks` that is live: the *)
(* ones before it have ended, so its index is their number.                 *)
NextTask == <<trk, Cardinality(tasks \ live)>>

LevelEngine ==
  \/ LevelLoop \/ GatherOld \/ LevelReset \/ SpawnBatch \/ BatchWake \/ HoldEnter
  \/ Finally \/ GatherFinal

FailingWorkers ==
  \/ NextTask \in live /\ WorkerStart(NextTask)
  \/ NextTask \in live /\ WorkloadRaise(NextTask)
  \/ NextTask \in live /\ SleepWake(NextTask)
  \/ NextTask \in live /\ DeliverCancel(NextTask)

StressFailCalls == { Cfg("stress", 100, 100, 300, 5, 0, "fail", 0) }
SpecStressFail ==
  InitOf(StressFailCalls) /\ [][LevelEngine \/ StressHoldWake \/ FailingWorkers]_vars

GentleFailCalls == { Cfg("stress_gentle", 50, 50, 150, 20, 0, "fail", 0) }
SpecGentleFail ==
  InitOf(GentleFailCalls) /\ [][LevelEngine \/ GentleHoldWake \/ FailingWorkers]_vars


(* The spawning runs: levels that take two and three batches, the last one  *)
(* partial, with the always-failing workload run one task at a time as      *)
(* above.                                                                   *)
SpawnCalls ==
  { Cfg("stress", 51, 50, 101, 1, 0, "fail", 0),
    Cfg("stress_gentle", 11, 10, 21, 10, 0, "fail", 0) }
SpecSpawn ==
  InitOf(SpawnCalls) /\
  [][LevelEngine \/ StressHoldWake \/ GentleHoldWake \/ FailingWorkers]_vars

(* The runs in which the scenario's own task may be cancelled at any of   *)
(* its sleeps: every scenario, small pools.                                *)
CancelCalls ==
  { Cfg("ramp_up", 1, 0, 2, 2, 0, "any", 0),
    Cfg("sustained", 2, 0, 0, 5, 0, "any", 0),
    Cfg("spike", 1, 1, 0, 1, 2, "any", 0),
    Cfg("stress", 1, 1, 2, 2, 0, "any", CapSmall),
    Cfg("stress_gentle", 1, 1, 2, 20, 0, "any", CapSmall) }

SpecCancel == InitOf(CancelCalls) /\ [][Next \/ ScenarioCancel \/ GatherCancelled]_vars

(* The level runs: stress and stress_gentle over several levels, with a   *)
(* step of one and of two, with start > max, and with a level that may     *)
(* abort.  The event loop runs whatever is ready: a sleep of the scenario  *)
(* ends, a gather whose tasks are done returns, and a cancelled task is    *)
(* resumed with its CancelledError; a workload invocation need not end.    *)
LevelCalls ==
  { Cfg("stress", 1, 1, 3, 1, 0, "any", CapSmall),
    Cfg("stress", 2, 1, 1, 1, 0, "any", CapSmall),
    Cfg("stress_gentle", 1, 2, 3, 10, 0, "any", CapSmall),
    Cfg("stress_gentle", 1, 1, 2, 10, 0, "fail", 0),
    Cfg("stress_gentle", 1, 1, 2, 10, 0, "any", CapGentle) }

LevelSteps == LevelEngine \/ StressHoldWake \/ GentleHoldWake

SpecLevels ==
  /\ InitOf(LevelCalls)
  /\ [][\/ LevelSteps
        \/ \E h \in live : WorkerStart(h)
        \/ \E h \in live : WorkloadReturn(h)
        \/ \E h \in live : WorkloadRaise(h)
        \/ \E h \in live : SleepWake(h)
        \/ \E h \in live : DeliverCancel(h)]_vars
  /\ WF_vars(LevelSteps)
  /\ WF_vars(\E h \in live : DeliverCancel(h))

(* The runs at the sizes where three errors per task reach the sample      *)
(* thresholds: stress at 33 and 34 tasks, stress_gentle at 16 and 17, the   *)
(* workload failing on every invocation, the tasks run one at a time as    *)
(* above.                                                                   *)
BreakerCalls ==
  { Cfg("stress", 33, 1, 34, 11, 0, "fail", 0),
    Cfg("stress_gentle", 16, 1, 17, 10, 0, "fail", 0) }
SpecBreaker ==
  InitOf(BreakerCalls) /\
  [][LevelEngine \/ StressHoldWake \/ GentleHoldWake \/ FailingWorkers]_vars

(* The runs with the QueryRunner as the workload, over a database whose     *)
(* every call may succeed or fail: one task at a time, one level.  With one *)
(* level the level loop never finds tasks to cancel, so GatherOld is no     *)
(* step of these runs.                                                      *)
QRCalls ==
  { Cfg("stress", 1, 1, 1, 2, 0, "qr", CapQR),
    Cfg("stress_gentle", 1, 1, 1, 10, 0, "qr", CapQR),
    Cfg("spike", 0, 1, 0, 1, 2, "qr", 0) }

QREngine ==
  \/ LevelLoop \/ LevelReset \/ SpawnBatch \/ BatchWake \/ HoldEnter
  \/ StressHoldWake \/ GentleHoldWake \/ Finally \/ GatherFinal
  \/ SpikeStart \/ SpikeOpen \/ SpikeClose \/ SpikeGather \/ SpikeRecovered

QRWorkers ==
  \/ \E h \in live : WorkerStart(h)
  \/ \E h \in live : SleepWake(h)
  \/ \E h \in live : DeliverCancel(h)
  \/ \E h \in live : QRConnectOk(h)
  \/ \E h \in live : QRConnectFail(h)
  \/ \E h \in live : QRSetOk(h)
  \/ \E h \in live : QRSetFail(h)
  \/ \E h \in live : QRRaise(h)
  \/ \E h \in live : QRRetryWake(h)
  \/ \E h \in live : QRCloseFailed(h)
  \/ \E h \in live : \E ok \in BOOLEAN : QRQuery(h, ok)
  \/ \E h \in live : QRBreatherWake(h)
  \/ \E h \in live : QRClose(h)
  \/ \E h \in live : QRCancel(h)
  \/ \E h \in live : QRUnwound(h)

SpecQR ==
  InitOf(QRCalls) /\
  [][QREngine \/ QRWorkers]_vars


(* The runs with the QueryRunner over a database that fails every query and *)
(* may refuse any connection, with the errors the connect loop names: one   *)
(* task, one level, a hold long enough for stress to sample.                *)
QRDownCalls ==
  { Cfg("stress", 1, 1, 1, 11, 0, "qr_down", CapQR),
    Cfg("stress_gentle", 1, 1, 1, 10, 0, "qr_down", CapQR) }

SpecQRDown ==
  InitOf(QRDownCalls) /\
  [][\/ LevelLoop \/ LevelReset \/ SpawnBatch \/ BatchWake \/ HoldEnter
     \/ StressHoldWake \/ GentleHoldWake \/ Finally \/ GatherFinal
     \/ \E h \in live : WorkerStart(h)
     \/ \E h \in live : SleepWake(h)
     \/ \E h \in live : DeliverCancel(h)
     \/ \E h \in live : QRConnectOk(h)
     \/ \E h \in live : QRConnectFail(h)
     \/ \E h \in live : QRSetOk(h)
     \/ \E h \in live : QRSetFail(h)
     \/ \E h \in live : QRRetryWake(h)
     \/ \E h \in live : QRCloseFailed(h)
     \/ \E h \in live : \E ok \in BOOLEAN : QRQuery(h, ok)
     \/ \E h \in live : QRBreatherWake(h)
     \/ \E h \in live : QRClose(h)
     \/ \E h \in live : QRCancel(h)
     \/ \E h \in live : QRUnwound(h)]_vars

(* The pacing runs: one stress worker inside an invocation, the level's    *)
(* tracker at any value its siblings may have left it at; the invocation    *)
(* returns and the worker chooses its pause.                                *)
PaceCalls == { Cfg("stress", 1, 1, 1, 1, 0, "ok", 0) }

PaceInit ==
  /\ cfg \in PaceCalls
  /\ pc = "hold"
  /\ current = 1
  /\ batch = 1
  /\ elapsed = 0
  /\ cycle = 0
  /\ tasks = {<<1, 0>>}
  /\ spikeTasks = {}
  /\ workers = [h \in {<<1, 0>>} |-> [NewWorker(1) EXCEPT !.st = "work"]]
  /\ live = {<<1, 0>>}
  /\ \E s \in 0..(PaceMaxSuccess - 1), e \in 0..PaceMaxErrors :
       trackers = [g \in {0, 1} |->
                     IF g = 1 THEN [success |-> s, errors |-> e] ELSE ZeroTracker]
  /\ trk = 1
  /\ stopEvent = FALSE
  /\ outcome = "running"
  /\ aborted = FALSE
  /\ spawnLog = <<>>
  /\ qr = [h \in {} |-> QRStart]
  /\ metrics = ZeroMetrics
  /\ open_conns = 0
  /\ tw = NewWindow
  /\ thr = NoThreads

SpecPace == PaceInit /\ [][\E h \in live : WorkloadReturn(h)]_vars

(* The window runs: any sequence of add (with any timestamp) and rate     *)
(* calls on one TimeWindow while time passes; the scenario, at its entry,  *)
(* takes no step.                                                           *)
WindowCalls == { Cfg("sustained", 2, 0, 0, 5, 0, "ok", 0) }

SpecWindow ==
  InitOf(WindowCalls) /\
  [][(\E ts \in 0..MaxTime : WindowAdd(ts)) \/ WindowRate \/ WindowTick]_vars

(* The thread runs: NumThreads threads call record_connect, record_query   *)
(* and snapshot on one MetricsCollector in any order, and are scheduled    *)
(* between any two bytecodes; the scenario, at its entry, takes no step.   *)
ThreadCalls == { Cfg("sustained", 2, 0, 0, 5, 0, "ok", 0) }

SpecThreads ==
  InitOf(ThreadCalls) /\
  [][\/ \E t \in Threads, op \in {"record_connect", "record_query", "snapshot"},
           ok \in BOOLEAN : ThreadCall(t, op, ok)
     \/ \E t \in Threads : Acquire(t)
     \/ \E t \in Threads : ConnectInc(t)
     \/ \E t \in Threads : QueryAdd(t)
     \/ \E t \in Threads : QueryRead(t)
     \/ \E t \in Threads : QueryWrite(t)
     \/ \E t \in Threads : SnapshotRead(t)
     \/ \E t \in Threads : Release(t)]_vars

(* ------------------------------------------------------------------ claims *)
\* C1: when a scenario function has returned (at the end of its work or by the
\* error-rate abort), none of the tasks it created is live: each has
\* completed or has been cancelled and awaited.
C1_NoLiveWorkerAfterReturn ==
  outcome = "None" =>
    /\ live = {}
    /\ \A h \in DOMAIN workers : workers[h].st \in Finished
\* A return by the abort that left cancelled tasks behind.
C1_AbortedReturn ==
  outcome = "None" /\ aborted /\ \E h \in DOMAIN workers : workers[h].st = "cancelled"

\* C2: stress(100, 100, 300, 5) with a workload that always fails aborts at
\* level 100 once the level has recorded more than 100 errors and no success:
\* with such a tracker the run never goes on to level 200.
C2_AbortsAtLevel100 ==
  (trk = 100 /\ trackers[100].success = 0 /\ trackers[100].errors > 100) => current = 100

\* C3: stress_gentle(50, 50, 150) with a workload that always fails: a sample
\* that finds more than 50 errors aborts the run, a sample that finds at most
\* 50 outcomes does not, and after the abort no task is created.
C3_GentleAbortsPast50 ==
  /\ [][(pc = "hold" /\ (pc' # "hold" \/ elapsed' # elapsed)) =>
          /\ trackers[trk].success = 0
          /\ trackers[trk].errors > 50 => (aborted' /\ pc' = "finally")
          /\ trackers[trk].success + trackers[trk].errors <= 50 =>
               (~aborted' /\ pc' \in {"hold", "loop"})]_vars
  /\ [][aborted => (aborted' /\ DOMAIN workers' \subseteq DOMAIN workers)]_vars
\* The run was aborted at level 50 and has returned.
C3_AbortedAtLevel50 == aborted /\ current = 50 /\ outcome = "None"

\* C4: stress, at the end of each sleep of a hold: at a sample point with error
\* rate > 0.5 over more than 100 outcomes the scenario leaves for its finally
\* block and creates no task again; otherwise it goes on holding, or, after
\* the last sleep, on to the level current + step.
C4_SampleDecides ==
  /\ [][(cfg.scen = "stress" /\ pc = "hold" /\ (pc' # "hold" \/ elapsed' # elapsed)) =>
          LET t == trackers[trk]
              n == t.success + t.errors
              sample == elapsed > 0 /\ elapsed % 10 = 0
          IN  IF sample /\ 2 * t.errors > n /\ n > 100
                THEN aborted' /\ pc' = "finally" /\ current' = current
                ELSE /\ ~aborted'
                     /\ IF elapsed + 1 < cfg.dur
                          THEN pc' = "hold" /\ elapsed' = elapsed + 1 /\ current' = current
                          ELSE pc' = "loop" /\ current' = current + cfg.step]_vars
  /\ [][aborted => /\ aborted'
                   /\ DOMAIN workers' \subseteq DOMAIN workers
                   /\ pc' \in {"finally", "gather_final", "returned"}]_vars
\* stress was aborted and has returned.
C4_StressAborted == cfg.scen = "stress" /\ aborted /\ outcome = "None"

\* C5: what stress and stress_gentle deliver after the error-rate abort differs
\* from what they deliver after completing every level.
NormalResult == "None"
C5_AbortDistinct ==
  (cfg.scen \in Tracked /\ pc = "returned" /\ aborted) => outcome # NormalResult

\* C6: in stress and stress_gentle the live tasks all belong to one level.
C6_OneLevelLive ==
  cfg.scen \in Tracked => \A h \in live : \A g \in live : h[1] = g[1]
\* Tasks of a level after the first are live.
C6_NextLevelLive ==
  cfg.scen \in Tracked /\ \E h \in live : h[1] > cfg.start

\* C7: the dict the monitoring loop reads only grows while it stays the same
\* dict; it is replaced only when no task is live, by a dict that is {0, 0}
\* and that no task holds yet; and it is {0, 0} as long as no task holding it
\* has run.
C7_Fresh ==
  cfg.scen \in Tracked /\ (\A h \in DOMAIN workers : workers[h].trk = trk => workers[h].st = "new")
    => trackers[trk] = ZeroTracker
C7_TrackerGrowsAndResets ==
  [][cfg.scen \in Tracked =>
       /\ C7_Fresh /\ C7_Fresh'
       /\ IF trk' = trk
            THEN /\ trackers'[trk].success >= trackers[trk].success
                 /\ trackers'[trk].errors >= trackers[trk].errors
            ELSE /\ trackers'[trk'] = ZeroTracker
                 /\ live = {}
                 /\ \A h \in DOMAIN workers' : workers'[h].trk # trk']_vars
\* The dict of a level after the first has counted successes and errors.
C7_SecondLevelCounts ==
  cfg.scen \in Tracked /\ trk > cfg.start
    /\ trackers[trk].success > 0 /\ trackers[trk].errors > 0

\* C8: when CancelledError reaches a stress, gentle or spike worker that is in
\* a pacing or back-off sleep, the task ends cancelled, and the step changes
\* neither the trackers nor the collector's error_count.
C8_SleepCancelRecordsNothing ==
  [][\A h \in live :
       (workers[h].st \in Sleeping /\ workers[h].cancel /\ workers'[h] # workers[h]) =>
         /\ workers'[h].st = "cancelled"
         /\ trackers' = trackers
         /\ metrics'.error_count = metrics.error_count]_vars
\* cancel() was called on a task in a sleep, after failures were counted.
C8_CancelledInSleep ==
  \E h \in live :
    /\ workers[h].st \in Sleeping /\ workers[h].cancel
    /\ metrics.error_count > 0
    /\ cfg.scen \in Tracked => Total(trackers[workers[h].trk]) > 0

\* C9: the step in which CancelledError reaches a task, at whatever await,
\* changes neither the trackers nor the collector's success_count,
\* error_count or QPS window.
C9_CancelRecordsNothing ==
  [][\A h \in live :
       (workers[h].cancel /\ ~workers'[h].cancel) =>
         /\ trackers' = trackers
         /\ metrics'.success_count = metrics.success_count
         /\ metrics'.error_count = metrics.error_count
         /\ metrics'.qps_window = metrics.qps_window]_vars

\* C10: ramp_up with start <= end creates one task per index start..end, in
\* increasing order, sleeping duration / max(1, end - start) after each; every
\* task invokes the workload once, none is cancelled, and the function
\* returns only when all have finished.
C10_RampUp ==
  (cfg.scen = "ramp_up" /\ cfg.start <= cfg.max) =>
    /\ Len(spawnLog) <= cfg.max - cfg.start + 1
    /\ \A i \in 1..Len(spawnLog) :
         /\ spawnLog[i][1] = cfg.start + i - 1
         /\ spawnLog[i][2][2] > 0
         /\ spawnLog[i][2][1] * Max(1, cfg.max - cfg.start) = cfg.dur * spawnLog[i][2][2]
         /\ (cfg.start = 1 /\ cfg.max = 5 /\ cfg.dur = 4) => spawnLog[i][2][1] = spawnLog[i][2][2]
    /\ pc \in {"ru_gather", "returned", "raised"} => Len(spawnLog) = cfg.max - cfg.start + 1
    /\ DOMAIN workers = {<<0, spawnLog[i][1]>> : i \in 1..Len(spawnLog)}
    /\ \A h \in DOMAIN workers :
         /\ ~workers[h].cancel
         /\ workers[h].st # "cancelled"
         /\ workers[h].calls = IF workers[h].st = "new" THEN 0 ELSE 1
    /\ outcome = "None" => \A h \in DOMAIN workers : workers[h].st = "done"
\* ramp_up(1, 5, 4) has returned after its five tasks.
C10_FiveSpawned ==
  cfg.scen = "ramp_up" /\ cfg.start = 1 /\ cfg.max = 5 /\ outcome = "None"
    /\ Len(spawnLog) = 5

\* C11 (as amended): in spike, while a cycle's spike window is open the live
\* tasks are the base and that cycle's spike tasks less those that have
\* circuit-broken, and from the end of the gather that closes the window until
\* the next window opens they are the base tasks less those that have
\* circuit-broken: base + spike and base when none has.
C11_SpikeLiveCount ==
  cfg.scen = "spike" =>
    LET broken == {h \in tasks \cup spikeTasks : workers[h].st = "done"}
    IN  /\ pc = "sp_spike" =>
             /\ Cardinality(tasks) = cfg.start /\ Cardinality(spikeTasks) = cfg.step
             /\ tasks \cap spikeTasks = {}
             /\ live = (tasks \cup spikeTasks) \ broken
             /\ Cardinality(live) = cfg.start + cfg.step - Cardinality(broken)
        /\ pc \in {"sp_recovery", "sp_stable"} =>
             /\ live = tasks \ broken
             /\ Cardinality(live) = cfg.start - Cardinality(tasks \cap broken)
\* spike(2, 3, .., 2): cycle 1's window has closed and two tasks are live,
\* after the base tasks have run.
C11_TwoRemain ==
  /\ cfg.scen = "spike" /\ cfg.start = 2 /\ cfg.step = 3
  /\ pc = "sp_recovery" /\ cycle = 0 /\ Cardinality(live) = 2
  /\ \A h \in live : workers[h].st = "pace"
\* C11 (as stated): exactly base + spike tasks are live inside a window, and
\* exactly base between windows.
C11_ExactlyBasePlusSpike ==
  cfg.scen = "spike" =>
    /\ pc = "sp_spike" => Cardinality(live) = cfg.start + cfg.step
    /\ (pc = "sp_recovery" \/ (pc = "sp_stable" /\ cycle > 0)) =>
         Cardinality(live) = cfg.start

\* C12: in spike, cancel() is pending only on the spike tasks of the cycle
\* whose window is being closed, or, in the final gather, on base tasks; until
\* the finally block has run no base task is cancelled, and a base task that
\* has not circuit-broken is live.
C12_OnlySpikeCancelled ==
  cfg.scen = "spike" =>
    /\ \A h \in DOMAIN workers :
         workers[h].cancel =>
           \/ pc = "sp_gather_spike" /\ h \in spikeTasks /\ spikeTasks = SpikeHandles(cycle)
           \/ pc = "gather_final" /\ h \in tasks
    /\ pc \notin {"gather_final", "returned"} =>
         \A h \in tasks :
           /\ workers[h].st # "cancelled"
           /\ workers[h].st # "done" => h \in live
\* The last cycle's window has been closed, its spike task ended cancelled,
\* and a base task that has run is still live.
C12_BaseOutlivesSpikes ==
  /\ cfg.scen = "spike" /\ pc = "finally" /\ cycle = cfg.cycles - 1
  /\ \E h \in spikeTasks : workers[h].st = "cancelled"
  /\ \E b \in tasks \cap live : workers[b].st \in Sleeping

\* C13: sustained creates the tasks 0 .. connections - 1 and no other; each
\* invokes the workload once; until the stop event is set a task whose
\* invocation returned is parked and live; the event is set only when the
\* sleep of `duration` has ended; sustained returns only when every task has
\* ended, also when the workload of some raised, and never raises itself.
C13_Sustained ==
  (cfg.scen = "sustained" /\ pc # "su_start") =>
    /\ tasks = {<<0, i>> : i \in 0..(cfg.start - 1)}
    /\ DOMAIN workers = tasks
    /\ \A h \in tasks :
         /\ workers[h].calls = IF workers[h].st = "new" THEN 0 ELSE 1
         /\ ~workers[h].cancel
         /\ workers[h].st \in {"new", "work", "parked", "done", "failed"}
         /\ workers[h].st \in {"new", "work", "parked"} <=> h \in live
         /\ ~stopEvent => workers[h].st # "done"
    /\ stopEvent <=> pc \in {"gather_final", "returned"}
    /\ outcome \in {"running", "None"}
    /\ outcome = "None" <=> pc = "returned"
    /\ pc = "returned" => live = {}
\* sustained has returned after one task's workload raised and another's
\* returned.
C13_ReturnedDespiteFailure ==
  /\ cfg.scen = "sustained" /\ outcome = "None"
  /\ \E h \in tasks : workers[h].st = "failed"
  /\ \E h \in tasks : workers[h].st = "done"

\* C14: an exception of the workload in one task never leaves the scenario
\* function, and never gets a sibling task cancelled: the scenario does not
\* raise, and in the scenarios that cancel nothing but at their end (ramp_up,
\* sustained) no task is ever cancelled.
C14_FailureContained ==
  /\ outcome # "raised"
  /\ cfg.scen \in {"ramp_up", "sustained"} =>
       \A h \in DOMAIN workers : ~workers[h].cancel /\ workers[h].st # "cancelled"

\* C15: a looping worker (spike: ceiling 5; stress, stress_gentle: 3) ends
\* by itself exactly at the loop test that finds its consecutive failures at
\* the ceiling; a failure adds one to the count and a success makes it 0; and
\* the step in which a worker so ends changes no other task.
C15_CircuitBreaker ==
  [][cfg.scen \in Looping =>
       \A h \in live :
         LET ceiling == IF cfg.scen = "spike" THEN 5 ELSE 3
             w == workers[h]
             v == workers'[h]
         IN  /\ w.ec <= ceiling
             /\ w.st = "work" => w.ec < ceiling
             /\ v.st = "done" => (w.st \in Sleeping /\ ~w.cancel /\ w.ec = ceiling)
             /\ (w.st \in Sleeping /\ v.st # w.st /\ w.ec = ceiling) =>
                  v.st \in {"done", "cancelled"}
             /\ (w.st \in Sleeping /\ v.st # w.st /\ w.ec < ceiling) =>
                  v.st \in {"work", "cancelled"}
             /\ (w.st = "work" /\ v.st = "pace") => v.ec = 0
             /\ (w.st = "work" /\ v.st = "backoff") => v.ec = w.ec + 1
             /\ (w.st = "work" /\ v.st = "work") => v.ec = w.ec
             /\ v.st = "done" => \A g \in DOMAIN workers \ {h} : workers'[g] = workers[g]]_vars
\* A worker has ended by the circuit breaker while a sibling that has failed
\* less often is live.
C15_BrokenBesideLive ==
  /\ cfg.scen \in Looping
  /\ \E h \in tasks \cup spikeTasks : workers[h].st = "done"
  /\ \E g \in live : workers[g].st = "backoff" /\ workers[g].ec > 0

\* C16: the pause a stress worker chooses after a success is 0.1s when the
\* tracker has at most 100 outcomes; past 100 it is 0.5s for an error rate
\* above 0.3, 0.2s for one above 0.1 and at most 0.3, else 0.1s, so that among
\* trackers past 100 a higher error rate never gives a shorter pause;
\* {60, 50} gives 0.5s and {95, 5} gives 0.1s.
C16_PaceTable ==
  \A h \in live :
    (cfg.scen = "stress" /\ workers[h].st = "pace") =>
      LET t == trackers[workers[h].trk]
          n == t.success + t.errors
          d == workers[h].delay
      IN  /\ n <= 100 => d = 100
          /\ (n > 100 /\ 10 * t.errors > 3 * n) => d = 500
          /\ (n > 100 /\ 10 * t.errors > n /\ 10 * t.errors <= 3 * n) => d = 200
          /\ (n > 100 /\ 10 * t.errors <= n) => d = 100
          /\ (t.success = 60 /\ t.errors = 50) => d = 500
          /\ (t.success = 95 /\ t.errors = 5) => d = 100
          /\ n > 100 =>
               \A s \in 0..PaceMaxSuccess, e \in 0..PaceMaxErrors :
                 (s + e > 100 /\ e * n <= t.errors * (s + e)) =>
                   StressPace([success |-> s, errors |-> e]) <= d
\* The worker chose its pause with the tracker at {60, 50}.
C16_SixtyFifty ==
  \E h \in live :
    /\ workers[h].st = "pace" /\ workers[h].delay = 500
    /\ trackers[workers[h].trk] = [success |-> 60, errors |-> 50]

\* C17: the step in which an invocation whose connect attempts all failed
\* records its connect failure is the third attempt's, records one failure,
\* and ends the worker without an exception: the worker is done and invokes
\* the workload no more.
C17_ExhaustionEndsWorker ==
  [][\A h \in live :
       (InQR(h) /\ ~qr[h].conn /\ qr[h].at = "connect"
          /\ metrics'.connect_error # metrics.connect_error) =>
         /\ qr[h].attempt = 2
         /\ metrics'.connect_error = metrics.connect_error + 1
         /\ workers'[h].st = "done"]_vars

\* C18: an invocation of the QueryRunner never has more than one connection
\* open, and when it ends, by returning or by cancellation at whatever await,
\* the connections it opened are closed.  (One invocation runs at a time in
\* these runs, so the connections open are those of the current one.)
C18_ConnectionsReleased ==
  [][\A h \in DOMAIN qr :
       /\ open_conns' <= 1
       /\ (h \notin DOMAIN qr' /\ workers'[h].st \in {"pace", "cancelled"}) =>
            open_conns' = 0]_vars

\* C19: whatever adds and reads came before, what rate() returns, times
\* window_seconds, is the number of timestamps stored at the call that are
\* not older than now - window_seconds: 0 when there is none.
C19_RateCountsFresh ==
  [][(tw'.op = "rate" /\ tw' # tw) =>
       LET fresh == {i \in 1..Len(tw.timestamps) :
                       tw.timestamps[i] >= tw.now - WindowSeconds}
       IN  /\ tw'.result[2] > 0
           /\ tw'.result[1] * WindowSeconds = Cardinality(fresh) * tw'.result[2]
           /\ fresh = {} => tw'.result[1] = 0]_vars
\* rate() has returned 1 / window_seconds with a stale timestamp stored
\* behind a fresh one.
C19_StaleNotCounted ==
  /\ tw.op = "rate" /\ tw.result = <<1, WindowSeconds>>
  /\ Len(tw.timestamps) = 2
  /\ tw.timestamps[1] >= tw.now - WindowSeconds
  /\ tw.timestamps[2] < tw.now - WindowSeconds

\* C20: right after an add or a rate call, whatever the timestamps given to
\* add, no timestamp the window retains is older than now - window_seconds.
C20_RetainedAreFresh ==
  tw.op \in {"add", "rate"} =>
    \A i \in 1..Len(tw.timestamps) : tw.timestamps[i] >= tw.now - WindowSeconds

\* C21: whatever the threads do, the dict a snapshot() returns holds the
\* counters as they were after the record_query calls completed before the
\* snapshot took the lock: success + error is their number, and so is the
\* number of timestamps; with the lock free no update is lost; success_count
\* and error_count never decrease.
C21_SnapshotsAreWhole ==
  /\ [](thr.returned =>
          /\ thr.snap.success + thr.snap.error = thr.snap.n
          /\ thr.snap.qps = thr.snap.n)
  /\ [](thr.lock = 0 =>
          /\ metrics.success_count + metrics.error_count = thr.done
          /\ metrics.qps_window = thr.done)
  /\ [][/\ metrics'.success_count >= metrics.success_count
        /\ metrics'.error_count >= metrics.error_count]_vars
\* A snapshot that saw one success and one error has returned while one
\* thread is inside record_query and another waits for the lock.
C21_SnapshotAmongWriters ==
  /\ thr.returned /\ thr.snap.success = 1 /\ thr.snap.error = 1
  /\ \E t \in Threads : thr.at[t] = "rq_write"
  /\ \E t \in Threads : thr.at[t] \in {"rq_lock", "sn_lock"}

\* C22: in stress and stress_gentle, when the hold of a level begins the
\* tasks of the level are exactly those of indices 0 .. current-1; every
\* step that creates tasks creates at most 50 (stress) or 10 (stress_gentle)
\* and is followed by the 1s sleep, except that stress goes from its last
\* batch straight to the hold.
C22_SpawnsWholeLevel ==
  /\ [](pc \in {"hold_enter", "hold"} =>
          /\ tasks = {<<current, i>> : i \in 0..(current - 1)}
          /\ Cardinality(tasks) = current)
  /\ [][(tasks' # tasks /\ tasks' # {}) =>
          /\ tasks \subseteq tasks'
          /\ tasks' \ tasks \subseteq live'
          /\ Cardinality(tasks' \ tasks) <= (IF cfg.scen = "stress" THEN 50 ELSE 10)
          /\ \/ pc' = "batch_sleep"
             \/ cfg.scen = "stress" /\ pc' = "hold_enter"
                  /\ Cardinality(tasks') = current]_vars
\* stress holds at level 101, reached in three batches.
C22_HoldAfterThreeBatches ==
  cfg.scen = "stress" /\ pc = "hold" /\ current = 101 /\ batch = 2
    /\ Cardinality(tasks) = 101

\* C23: when a scenario function whose task was cancelled at one of its
\* sleeps has passed the cancellation on to its caller, none of the tasks it
\* created is live.
C23_CancelledLeavesNoWorker ==
  outcome = "cancelled" => live = {}

\* C24: stress and stress_gentle, step >= 1: the levels are entered in the
\* order start, start + step, ..., each at most once and none above max; a
\* call that returns without the abort has entered the last of them; the
\* call eventually returns; with start > max no task is created and the
\* function returns without a sleep.
C24_LevelsInOrder ==
  /\ [][trk' # trk =>
          /\ trk' = current /\ trk' <= cfg.max
          /\ IF trk = 0 THEN trk' = cfg.start ELSE trk' = trk + cfg.step]_vars
  /\ [][current' # current => current' = current + cfg.step /\ current = trk]_vars
  /\ [](\A h \in DOMAIN workers : h[1] = trk /\ h[1] \in LevelsOf(cfg))
  /\ []((outcome = "None" /\ ~aborted) =>
          IF cfg.start > cfg.max THEN trk = 0
          ELSE trk <= cfg.max /\ trk + cfg.step > cfg.max)
  /\ [](cfg.start > cfg.max =>
          DOMAIN workers = {} /\ pc \in {"loop", "finally", "returned"})
  /\ <>(outcome = "None")
\* stress_gentle(1, 2, 3) has returned after holding at levels 1 and 3.
C24_ReturnedAfterLastLevel ==
  cfg.scen = "stress_gentle" /\ cfg.step = 2 /\ outcome = "None" /\ ~aborted /\ trk = 3
    /\ \E h \in DOMAIN workers : workers[h].st = "cancelled"

\* C25: stress and stress_gentle, under every interleaving of the workers:
\* a level's tracker starts at zero; every step adds to its success count
\* the number of the level's invocations that return in the step and to its
\* errors count the number that raise in it, so that a step in which an
\* invocation is cancelled, or no invocation ends, leaves the tracker as it
\* was.
C25_TrackerCountsOutcomes ==
  [][IF pc = "reset" /\ pc' # "reset"
       THEN trackers'[trk'] = ZeroTracker
       ELSE \A g \in DOMAIN trackers :
              LET ended(to) == {h \in live \cap DOMAIN workers' :
                                  /\ workers[h].trk = g
                                  /\ workers[h].st = "work"
                                  /\ workers'[h].st = to}
              IN  /\ trackers'[g].success =
                       trackers[g].success + Cardinality(ended("pace"))
                  /\ trackers'[g].errors =
                       trackers[g].errors + Cardinality(ended("backoff"))]_vars
\* Level 3 of stress has counted two successes and one error, and one of its
\* tasks is to be cancelled inside an invocation.
C25_CountedThenCancelled ==
  /\ cfg.scen = "stress" /\ trk = 3
  /\ trackers[3] = [success |-> 2, errors |-> 1]
  /\ \E h \in live : workers[h].st = "work" /\ workers[h].cancel
  /\ \E h \in DOMAIN workers : workers[h].st = "cancelled"

\* C26: stress and stress_gentle with the QueryRunner, when connections are
\* refused and every query fails: an invocation that ends, ends by
\* returning, which adds one to the tracker's success count and leaves the
\* worker's error_count at 0; the tracker's errors stays 0, no worker ends by
\* its circuit breaker, and the abort is not taken (nor would it be with
\* any success count and no error).
C26_FailuresCountAsSuccess ==
  /\ [](/\ trackers[trk].errors = 0
        /\ ~aborted
        /\ \A h \in DOMAIN workers : workers[h].ec = 0 /\ workers[h].st # "done"
        /\ \A n \in 0..CapStress :
             /\ ~StressAbort([success |-> n, errors |-> 0])
             /\ ~GentleAbort([success |-> n, errors |-> 0]))
  /\ [][\A h \in DOMAIN qr :
          (h \notin DOMAIN qr' /\ workers'[h].st # "cancelled") =>
            /\ workers'[h].st = "pace" /\ workers'[h].ec = 0
            /\ trackers'[trk] = [trackers[trk] EXCEPT !.success = @ + 1]]_vars
\* An invocation whose thirty queries all failed and one whose three connect
\* attempts all failed have both returned and count as two successes.
C26_TwoFailedInvocationsCounted ==
  /\ cfg.workload = "qr_down"
  /\ metrics.error_count = 30 /\ metrics.success_count = 0
  /\ metrics.connect_error = 1
  /\ trackers[trk] = [success |-> 2, errors |-> 0]

\* C27: stress and stress_gentle with a workload that fails on every
\* invocation: a worker that ends by itself has just counted its third
\* error; the tracker of a level of c tasks never holds a success nor more
\* than 3 * c errors; no abort is taken at a stress level of at most 33
\* tasks nor at a stress_gentle level of at most 16.
C27_ThreeErrorsPerWorker ==
  /\ [](/\ trackers[trk].success = 0
        /\ trackers[trk].errors <= 3 * current
        /\ trackers[trk].errors >=
             3 * Cardinality({h \in DOMAIN workers : workers[h].st = "done"})
        /\ (cfg.scen = "stress" /\ trk <= 33) => ~aborted
        /\ (cfg.scen = "stress_gentle" /\ trk <= 16) => ~aborted)
  /\ [][\A h \in live : (workers'[h].st = "done") =>
          /\ workers[h].ec = 3
          /\ trackers' = trackers]_vars
\* stress_gentle has held at 16 tasks, sampled 48 errors out of 48 and gone
\* on to the next level.
C27_FullErrorRateNoAbort ==
  /\ cfg.scen = "stress_gentle" /\ trk = 16 /\ current = 17 /\ ~aborted
  /\ trackers[16] = [success |-> 0, errors |-> 48]
  /\ \A h \in tasks : workers[h].st = "done"


====
